---- MODULE Spec2Model ----
(***************************************************************************)
(* Model of netatmo-otel: run (src/main.go), exportHistory (src/main.go),  *)
(* and the netatmo client's GetStations / GetMeasure / doRequest           *)
(* (src/netatmo/client.go).                                                *)
(*                                                                         *)
(* Strings the code splits or parses (the -resume flag, device and module  *)
(* IDs) are sequences of one-character strings, so that strings.Split and  *)
(* strconv.Atoi are computed, not assumed.  A time.Time is a record: the   *)
(* zero Time (January 1, year 1) has no Unix second TLC can represent.     *)
(***************************************************************************)
EXTENDS Integers, Sequences, FiniteSets, TLC

\* ------------------------------------------------------------------ bounds
MaxGroups == 2
MaxValues == 2
MaxPages == 2

\* ------------------------------------------------------- generic helpers
SeqsUpTo(S, n) == UNION {[1..k -> S] : k \in 0..n}

Last(s) == s[Len(s)]

\* ------------------------------------------------------------- time.Time
ZeroTime == [isZero |-> TRUE, unix |-> 0]

Unix(sec) == [isZero |-> FALSE, unix |-> sec]

IsZero(t) == t.isZero

Add(t, d) == Unix(t.unix + d)

\* ---------------------------------------------- strings.Split / strconv.Atoi
Digits == <<"0", "1", "2", "3", "4", "5", "6", "7", "8", "9">>

IsDigit(c) == \E i \in 1..10 : Digits[i] = c

DigitVal(c) == (CHOOSE i \in 1..10 : Digits[i] = c) - 1

RECURSIVE SplitFrom(_, _, _)
SplitFrom(s, sep, cur) ==
  IF s = <<>> THEN <<cur>>
  ELSE IF Head(s) = sep THEN <<cur>> \o SplitFrom(Tail(s), sep, <<>>)
  ELSE SplitFrom(Tail(s), sep, Append(cur, Head(s)))

Split(s, sep) == SplitFrom(s, sep, <<>>)

RECURSIVE ParseUint(_, _)
ParseUint(s, acc) ==
  IF s = <<>> THEN acc ELSE ParseUint(Tail(s), 10 * acc + DigitVal(Head(s)))

AtoiBody(s) ==
  LET signed == s # <<>> /\ Head(s) \in {"+", "-"}
      ds == IF signed THEN Tail(s) ELSE s
  IN IF ds = <<>> \/ \E i \in 1..Len(ds) : ~IsDigit(ds[i])
     THEN [err |-> TRUE, val |-> 0]
     ELSE [err |-> FALSE,
           val |-> IF signed /\ Head(s) = "-" THEN 0 - ParseUint(ds, 0)
                   ELSE ParseUint(ds, 0)]

Atoi(s) == AtoiBody(s)

\* ------------------------------------------------------- program inputs
DevA == <<"a">>
DevB == <<"b">>
ModM == <<"m">>
NoModule == <<>>

\* -resume values: "", "a//561", "a/m/1301", "b//x", "a/m", "a", "z//5".
ResumeFlags ==
  { <<>>,
    <<"a", "/", "/", "5", "6", "1">>,
    <<"a", "/", "m", "/", "1", "3", "0", "1">>,
    <<"b", "/", "/", "x">>,
    <<"a", "/", "m">>,
    <<"a">>,
    <<"z", "/", "/", "5">> }

ScrapeSinces == {0, 600}

Nows == {2000, 2001}

StationLists ==
  { <<>>,
    << [ID |-> DevA, DataTypes |-> <<"Temperature">>,
        Modules |-> << [ID |-> ModM, DataTypes |-> <<"Temperature", "Humidiity">>] >>],
       [ID |-> DevB, DataTypes |-> <<"Temperature">>, Modules |-> <<>>] >>,
    << [ID |-> DevB, DataTypes |-> <<>>, Modules |-> <<>>] >> }

BegTimes == {500, 1000}
Steps == {0, 300}
Vectors == {<<20, 50>>}

Groups == [Time : BegTimes, Step : Steps, Value : SeqsUpTo(Vectors, MaxValues)]
MeasureBodies == SeqsUpTo(Groups, MaxGroups)

\* An HTTP exchange as doRequest sees it.
Response(transport, status, envelope, error, bodyOK, body) ==
  [transport |-> transport, status |-> status, envelope |-> envelope,
   error |-> error, bodyOK |-> bodyOK, body |-> body]

FailureResponses ==
  { Response("err", 0, "ok", "absent", TRUE, <<>>),
    Response("ok", 500, "ok", "absent", TRUE, <<>>),
    Response("ok", 200, "malformed", "absent", TRUE, <<>>),
    Response("ok", 200, "ok", "valid", TRUE, <<>>),
    Response("ok", 200, "ok", "invalid", TRUE, <<>>),
    Response("ok", 200, "ok", "absent", FALSE, <<>>) }

\* Bodies whose value vectors differ in content and in length.
ValueVectors == {<<10>>, <<11>>, <<20, 50>>}

ValueBodies ==
  SeqsUpTo([Time : BegTimes, Step : {60}, Value : SeqsUpTo(ValueVectors, MaxValues)],
           MaxGroups)

\* The bodies the upstream answers with while the whole run is explored.
RunBodies ==
  {b \in MeasureBodies : Len(b) <= 1 /\ \A i \in 1..Len(b) : b[i].Time = 1000 /\ b[i].Step = 300}

\* A non-200 answer that carries a well-formed page all the same.
Non200WithBody(bodies) ==
  {Response("ok", 500, "ok", "absent", TRUE, b) : b \in {c \in bodies : Len(c) = 1}}

MeasureResponses(bodies) ==
  FailureResponses \cup Non200WithBody(bodies)
    \cup {Response("ok", 200, "ok", "absent", TRUE, b) : b \in bodies}

StationsResponses ==
  FailureResponses \cup {Response("ok", 200, "ok", "absent", TRUE, b) : b \in StationLists}

\* promAPI.Query results: an error, or a vector of samples.
SampleIDs == {DevA, ModM}
SampleValues == {560, 1300}
MaxSamples == 2
QueryResults ==
  {[err |-> TRUE, vec |-> <<>>]} \cup
  {[err |-> FALSE, vec |-> v] :
     v \in SeqsUpTo([dev_id : SampleIDs, Value : SampleValues], MaxSamples)}

\* The throttled transport.  Burst stands for the limiter's burst (50 at
\* client.go:34), scaled down; a refill is the passing of one interval of
\* the limiter's rate (3600/300 seconds at client.go:34).
Burst == 2
MaxRefills == 2

\* Concurrent callers of the transport, one request each.
Callers == 1..(Burst + 1)

\* What the underlying transport answers: a failure, an empty page, a page
\* with one point.
TransportResponses ==
  { Response("err", 0, "ok", "absent", TRUE, <<>>),
    Response("ok", 200, "ok", "absent", TRUE, <<>>),
    Response("ok", 200, "ok", "absent", TRUE,
             <<[Time |-> 500, Step |-> 60, Value |-> << <<10>> >>]>>) }

\* What client.Do hands to doRequest when RoundTrip returned an error.
RoundTripFailed == Response("err", 0, "ok", "absent", TRUE, <<>>)

\* The upstream as a store of samples: the times it holds samples at, the
\* most samples it puts in one page, the one station it reports.
StoreTimes == {500, 560, 620, 700}
PageLimit == 2

StoreStations ==
  << [ID |-> DevA, DataTypes |-> <<"Temperature">>, Modules |-> <<>>] >>

\* The elements of a set of numbers in increasing order.
RECURSIVE Sorted(_)
Sorted(S) ==
  IF S = {} THEN <<>>
  ELSE LET m == CHOOSE x \in S : \A y \in S : x <= y
       IN <<m>> \o Sorted(S \ {m})

\* The length of the longest prefix of times with the spacing step.
RECURSIVE RunLength(_, _)
RunLength(times, step) ==
  IF Len(times) < 2 \/ times[2] - times[1] # step THEN Len(times)
  ELSE IF Len(times) = 2 THEN 2
  ELSE 1 + RunLength(Tail(times), step)

\* The compact format (optimize=true): runs of evenly spaced samples as
\* groups of beg_time, step_time and values; a lone sample has no step_time.
RECURSIVE Encode(_)
Encode(times) ==
  IF times = <<>> THEN <<>>
  ELSE IF Len(times) = 1
  THEN <<[Time |-> times[1], Step |-> 0, Value |-> << <<20>> >>]>>
  ELSE LET step == times[2] - times[1]
           n == RunLength(times, step)
       IN <<[Time |-> times[1], Step |-> step,
             Value |-> [i \in 1..n |-> <<20>>]]>>
          \o Encode(SubSeq(times, n + 1, Len(times)))

\* The answer to a request: the earliest samples at or after date_begin, at
\* most PageLimit of them.
Upstream(store, dateBegin) ==
  LET from == Sorted({t \in store : dateBegin = <<>> \/ t >= dateBegin[1]})
      n == IF Len(from) < PageLimit THEN Len(from) ELSE PageLimit
  IN Response("ok", 200, "ok", "absent", TRUE, Encode(SubSeq(from, 1, n)))

\* The sink: for every metric (one per data type) what a last-sample query
\* of it returns.
MetricNames == {"Temperature", "Humidiity"}

OtherResults ==
  {[err |-> FALSE, vec |-> <<>>],
   [err |-> FALSE, vec |-> <<[dev_id |-> ModM, Value |-> 1300]>>]}

\* The sinks that differ in the metrics of the given data types.
Sinks(dataTypes) ==
  LET asked == {dataTypes[i] : i \in 1..Len(dataTypes)}
      empty == [err |-> FALSE, vec |-> <<>>]
  IN {[t \in MetricNames |-> IF t = "Temperature" THEN q ELSE o] :
        q \in (IF "Temperature" \in asked THEN QueryResults ELSE {empty}),
        o \in (IF "Humidiity" \in asked THEN OtherResults ELSE {empty})}

\* ------------------------------------------------------------- doRequest
\* Variant: the status code is not looked at.
doRequestIgnoresStatus(resp, zero) ==
  LET err == IF resp.transport = "ok" THEN "nil" ELSE "transport"
  IN IF err # "nil" THEN [body |-> zero, err |-> err]
     ELSE IF resp.envelope # "ok" THEN [body |-> zero, err |-> "decode"]
     ELSE IF resp.error # "absent"
       THEN IF resp.error = "invalid" THEN [body |-> zero, err |-> "decode"]
            ELSE [body |-> zero, err |-> err]
     ELSE IF ~resp.bodyOK THEN [body |-> zero, err |-> "decode"]
     ELSE [body |-> resp.body, err |-> "nil"]

\* client.go:113-149.  err is the variable declared at line 115 and last
\* assigned at line 120; the err of lines 132, 138 and 145 are scoped to
\* their if statements.
doRequest(resp, zero) ==
  LET err == IF resp.transport = "ok" THEN "nil" ELSE "transport"
  IN IF err # "nil" THEN [body |-> zero, err |-> err]
     ELSE IF resp.status # 200 THEN [body |-> zero, err |-> "status"]
     ELSE IF resp.envelope # "ok" THEN [body |-> zero, err |-> "decode"]
     ELSE IF resp.error # "absent"
       THEN IF resp.error = "invalid" THEN [body |-> zero, err |-> "decode"]
            ELSE [body |-> zero, err |-> err]
     ELSE IF ~resp.bodyOK THEN [body |-> zero, err |-> "decode"]
     ELSE [body |-> resp.body, err |-> "nil"]

\* -------------------------------------------------- NotifyingTokenSource
\* What the wrapped source's Token returns: a token, or an error.
MaxTokenCalls == 5

TokenValues == {"t1", "t2", "t3"}

SourceResults ==
  {[tok |-> t, err |-> "nil"] : t \in TokenValues}
    \cup {[tok |-> "none", err |-> "refresh"]}

\* What configDB.Save returns.
SaveResults == {"nil", "save"}

\* main.go:363-369: the callback run passes as newToken, given what Save
\* would return.  set: configDB.Data.Token is assigned; saved: Save is
\* called; ret: the callback's result.
newToken(t, err, save) ==
  IF err = "nil" THEN [set |-> TRUE, saved |-> TRUE, ret |-> save]
  ELSE [set |-> FALSE, saved |-> FALSE, ret |-> err]

\* Variant: the wrapped source's error is returned, not Notify's.
TokenKeepsSourceErr(src, notified) == [tok |-> src.tok, err |-> src.err]

\* client.go:48-52: what Token returns, given the wrapped source's result
\* and the result of Notify.
Token(src, notified) == [tok |-> src.tok, err |-> notified]

\* ---------------------------------------------------- throttledTransport
\* Limiter.Wait at the moment it is called: the context is done, a token
\* is there, or the caller has to wait for one.
WaitNow(tokens, done) ==
  IF done THEN "ctx" ELSE IF tokens > 0 THEN "nil" ELSE "block"

\* Variant: the request is sent whatever Wait returned.
RoundTripIgnoresWait(waitErr) == "send"

\* client.go:169-174: what RoundTrip does with the error Wait returned.
RoundTrip(waitErr) == IF waitErr # "nil" THEN "fail" ELSE "send"

\* ------------------------------------------------------------ GetMeasure
\* client.go:88-105: one iteration of the loop up to the call of yield,
\* given what doRequest returned.
PageOutcome(r) ==
  IF r.err # "nil" THEN "err" ELSE IF Len(r.body) = 0 THEN "nil" ELSE "yield"

\* Variant: date_begin is set whatever since is.
InitialDateBeginAlways(since) == <<since.unix>>

\* client.go:83-85: the initial date_begin parameter (<<>> when not set).
InitialDateBegin(since) == IF ~IsZero(since) THEN <<since.unix>> ELSE <<>>

\* Variant: every point of a group carries the group's beg_time.
FlattenGroupSameTime(value, t, step) ==
  [points |-> [j \in 1..Len(value) |-> [Time |-> t, Values |-> value[j]]],
   t |-> t + Len(value) * step]

\* client.go:100-103: the points of one group and t after its inner loop.
RECURSIVE FlattenGroup(_, _, _)
FlattenGroup(value, t, step) ==
  IF value = <<>> THEN [points |-> <<>>, t |-> t]
  ELSE LET rest == FlattenGroup(Tail(value), t + step, step)
       IN [points |-> <<[Time |-> t, Values |-> Head(value)]>> \o rest.points,
           t |-> rest.t]

\* Variant: t is never set from a group's beg_time.
RECURSIVE FlattenNoBegTime(_, _)
FlattenNoBegTime(body, t0) ==
  IF body = <<>> THEN [points |-> <<>>, t |-> t0]
  ELSE LET g == FlattenGroup(Head(body).Value, t0, Head(body).Step)
           rest == FlattenNoBegTime(Tail(body), g.t)
       IN [points |-> g.points \o rest.points, t |-> rest.t]

\* client.go:96-104: points and t after the loop over the groups.
RECURSIVE Flatten(_, _)
Flatten(body, t0) ==
  IF body = <<>> THEN [points |-> <<>>, t |-> t0]
  ELSE LET g == FlattenGroup(Head(body).Value, Head(body).Time, Head(body).Step)
           rest == Flatten(Tail(body), g.t)
       IN [points |-> g.points \o rest.points, t |-> rest.t]

\* Variant: the loop has no exit on an empty page.
NoDataNever(body) == FALSE

\* client.go:92: the page that ends the pagination.
NoData(body) == Len(body) = 0

\* Variant: the result of yield is ignored.
YieldFailedNever(err) == FALSE

\* client.go:105: the result of yield that makes GetMeasure return it.
YieldFailed(err) == err # "nil"

\* Variant: the second is not added.
NextDateBeginNoSecond(t) == <<t>>

\* client.go:108: the date_begin of the next request.
NextDateBegin(t) == <<t + 1>>

\* ---------------------------------------------------------- exportHistory
\* Variant: the first sample is taken, whatever its dev_id.
SinceFromVectorAnyID(vec, device, module) ==
  IF vec = <<>> THEN ZeroTime ELSE Add(Unix(Head(vec).Value), 1)

\* main.go:432-437: the first sample whose dev_id is the unit's ID.
RECURSIVE SinceFromVector(_, _, _)
SinceFromVector(vec, device, module) ==
  IF vec = <<>> THEN ZeroTime
  ELSE IF \/ module # NoModule /\ Head(vec).dev_id = module
          \/ module = NoModule /\ Head(vec).dev_id = device
       THEN Add(Unix(Head(vec).Value), 1)
       ELSE SinceFromVector(Tail(vec), device, module)

\* Variant: a configured lookback replaces the start found by the query.
ApplyScrapeSinceAlways(since, scrapeSince, now) ==
  IF scrapeSince # 0 THEN Add(Unix(now), 0 - scrapeSince) ELSE since

\* main.go:439-441.
ApplyScrapeSince(since, scrapeSince, now) ==
  IF IsZero(since) /\ scrapeSince # 0 THEN Add(Unix(now), 0 - scrapeSince) ELSE since

\* Variant: only the device field of the token is compared.
ResumeDecisionDeviceOnly(resume, device, module) ==
  IF resume = <<>> THEN [kind |-> "none"]
  ELSE LET r == Split(resume, "/")
       IN IF r[1] # device THEN [kind |-> "skip"]
          ELSE IF Len(r) < 3 THEN [kind |-> "panic"]
          ELSE LET a == Atoi(r[3])
               IN IF a.err THEN [kind |-> "err"]
                  ELSE [kind |-> "start", since |-> Unix(a.val)]

\* main.go:444-456: what the resume token does to the unit.
\*   kind "none": no token; "skip": return nil; "panic": index out of range;
\*   "err": strconv.Atoi failed; "start": since and *resume are replaced.
ResumeDecision(resume, device, module) ==
  IF resume = <<>> THEN [kind |-> "none"]
  ELSE LET r == Split(resume, "/")
       IN IF r[1] # device THEN [kind |-> "skip"]
          ELSE IF Len(r) < 2 THEN [kind |-> "panic"]
          ELSE IF r[2] # module THEN [kind |-> "skip"]
          ELSE IF Len(r) < 3 THEN [kind |-> "panic"]
          ELSE LET a == Atoi(r[3])
               IN IF a.err THEN [kind |-> "err"]
                  ELSE [kind |-> "start", since |-> Unix(a.val)]

\* main.go:466-496: the yield callback.  encodeFailAt = k > 0 makes the k-th
\* exporter.Encode call fail; point.Values[i] panics on a short vector.
Consumer(points, dataTypes, encodeFailAt) ==
  LET n == Len(dataTypes)
      short == {i \in 1..n : \E p \in 1..Len(points) : Len(points[p].Values) < i}
      firstShort == IF short = {} THEN n + 1 ELSE CHOOSE i \in short : \A j \in short : i <= j
  IN IF encodeFailAt \in 1..n /\ encodeFailAt < firstShort THEN "err"
     ELSE IF firstShort <= n THEN "panic"
     ELSE "nil"

\* main.go:493: %d of a number that is not negative.
RECURSIVE Itoa(_)
Itoa(n) ==
  IF n < 10 THEN <<Digits[n + 1]>> ELSE Itoa(n \div 10) \o <<Digits[(n % 10) + 1]>>

\* main.go:493: the resume token of the log line.
ResumeToken(device, module, nextTime) ==
  device \o <<"/">> \o module \o <<"/">> \o Itoa(nextTime)

\* Variant: the query is made for the last data type.
QueriedTypeLast(dataTypes) == dataTypes[Len(dataTypes)]

\* main.go:426: the data type whose metric the sink is asked for.
QueriedType(dataTypes) == dataTypes[1]

\* main.go:423-456: exportHistory up to the call of GetMeasure, given the
\* result q of promAPI.Query and the value now of time.Now().
\*   kind "measure": GetMeasure is called with since; "nil" / "err": the
\*   function returns; "panic": index out of range.
ExportHistoryStart(resume, incremental, scrapeSince, unit, q, now) ==
  IF incremental /\ unit.dataTypes = <<>> THEN [kind |-> "panic", resume |-> resume]
  ELSE IF incremental /\ q.err THEN [kind |-> "err", resume |-> resume]
  ELSE
    LET since0 == IF incremental THEN SinceFromVector(q.vec, unit.device, unit.module)
                  ELSE ZeroTime
        since1 == ApplyScrapeSince(since0, scrapeSince, now)
        d == ResumeDecision(resume, unit.device, unit.module)
    IN CASE d.kind = "none" -> [kind |-> "measure", since |-> since1, resume |-> resume]
         [] d.kind = "skip" -> [kind |-> "nil", resume |-> resume]
         [] d.kind = "panic" -> [kind |-> "panic", resume |-> resume]
         [] d.kind = "err" -> [kind |-> "err", resume |-> resume]
         [] d.kind = "start" -> [kind |-> "measure", since |-> d.since, resume |-> <<>>]

\* ------------------------------------------------------------------- run
\* main.go:381-412: the unit the loops are at; mi = 0 is the device itself.
CurUnit(sts, d, m) ==
  IF m = 0
  THEN [device |-> sts[d].ID, module |-> NoModule, dataTypes |-> sts[d].DataTypes]
  ELSE [device |-> sts[d].ID, module |-> sts[d].Modules[m].ID,
        dataTypes |-> sts[d].Modules[m].DataTypes]

\* main.go:397, 410: what run does with the error exportHistory returned.
\* The call is an expression statement: the result is discarded.
RunStopsOn(err) == FALSE

VARIABLES
  resume,       \* *resume
  incremental,  \* *incremental
  scrapeSince,  \* *scrapeSince, in seconds
  pc,           \* "stations", "unit", "request", "yield", "done"
  runErr,       \* what run returned: "running", "nil", "err", "panic"
  stations,     \* the result of GetStations
  di, mi,       \* loop positions in run
  since,        \* exportHistory's since, GetMeasure's parameter
  dateBegin,    \* v["date_begin"]: <<>> when not set, <<n>> when set
  points,       \* first argument of yield
  nextTime,     \* second argument of yield (t)
  page,         \* history: the body points were flattened from
  entry,        \* history: the unit, *resume, query result and time.Now()
                \* exportHistory started from; dropped at the first request
  reqs,         \* history: getmeasure requests sent for this unit
  yields,       \* history: calls of yield for this unit
  lastResp,     \* history: the last response doRequest saw, body counted
  consumed,     \* history: what the last call of yield returned
  ret,          \* history: what the last exportHistory returned
  failed,       \* history: some exportHistory returned a non-nil error
  tokens,       \* the limiter's tokens
  refills,      \* history: tokens added to the limiter since the start
  callers,      \* concurrent callers of the throttled transport
  store,        \* the times the upstream holds samples at
  got,          \* history: the times of the points the consumer accepted
  cursor,       \* history: the nextTime of the last page accepted
  before,       \* history: the times accepted by the run that was aborted
  resumed,      \* history: this run was started from a logged resume token
  cfgToken,     \* configDB.Data.Token
  diskToken,    \* the token in the saved config file
  tokCalls,     \* history: calls of NotifyingTokenSource.Token
  lastToken     \* history: the last call of Token

vars ==
  <<resume, incremental, scrapeSince, pc, runErr, stations, di, mi, since,
    dateBegin, points, nextTime, page, entry, reqs, yields, lastResp, consumed,
    ret, failed, tokens, refills, callers, store, got, cursor, before, resumed,
    cfgToken, diskToken, tokCalls, lastToken>>

tvars == <<tokens, refills, callers>>

svars == <<store, got, cursor, before, resumed>>

nvars == <<cfgToken, diskToken, tokCalls, lastToken>>

\* No call of Token yet.
\*   src: what the wrapped source returned; notify: the arguments of the
\*   calls of Notify; save: what Save returned; ret: what Token returned
NoTokenCall ==
  [src |-> [tok |-> "none", err |-> "nil"], notify |-> <<>>, save |-> "none",
   ret |-> [tok |-> "none", err |-> "nil"]]

\* A caller that has not called RoundTrip yet.
\*   state: "idle", "blocked" (in Wait), "granted" (Wait returned nil),
\*          "failed" (RoundTrip returned an error), "done" (response back)
\*   cancelled: the request's context is done
\*   waits, sends: calls of Limiter.Wait and of the underlying RoundTrip
\*   waitErr: what Wait returned; blocked: Wait did not return at once
\*   result: what the iteration of GetMeasure's loop came to
IdleCaller ==
  [state |-> "idle", cancelled |-> FALSE, waits |-> 0, waitErr |-> "none",
   sends |-> 0, blocked |-> FALSE, result |-> "none"]

config == <<incremental, scrapeSince>>

NoQuery == [err |-> FALSE, vec |-> <<>>]

NoSink == [t \in MetricNames |-> NoQuery]

\*   metrics: the data types promAPI.Query was called for, in order
\*   query: what the call returned; sink: what the sink held
NoEntry ==
  [valid |-> FALSE, device |-> <<>>, module |-> <<>>, dataTypes |-> <<>>,
   resume |-> <<>>, queried |-> FALSE, metrics |-> <<>>, query |-> NoQuery,
   sink |-> NoSink, now |-> 0]

Seen(resp) ==
  [transport |-> resp.transport, status |-> resp.status, envelope |-> resp.envelope,
   error |-> resp.error, bodyOK |-> resp.bodyOK, groups |-> Len(resp.body)]

NoResponse == Seen(Response("none", 0, "ok", "absent", TRUE, <<>>))

InitRun ==
  /\ resume \in ResumeFlags
  /\ incremental \in BOOLEAN
  /\ scrapeSince \in ScrapeSinces
  /\ pc = "stations"
  /\ runErr = "running"
  /\ stations = <<>>
  /\ di = 0 /\ mi = 0
  /\ since = ZeroTime
  /\ dateBegin = <<>>
  /\ points = <<>>
  /\ nextTime = 0
  /\ page = <<>>
  /\ entry = NoEntry
  /\ reqs = 0 /\ yields = 0
  /\ lastResp = NoResponse
  /\ consumed = "none"
  /\ ret = "none"
  /\ failed = FALSE
  /\ tokens = Burst
  /\ refills = 0
  /\ callers = [c \in Callers |-> IdleCaller]
  /\ cfgToken = "t0"
  /\ diskToken = "t0"
  /\ tokCalls = 0
  /\ lastToken = NoTokenCall

\* No run came before this one.
FirstRun ==
  /\ got = <<>>
  /\ cursor = <<>>
  /\ before = {}
  /\ resumed = FALSE

Init == InitRun /\ store = {} /\ FirstRun

\* run returns err (or the process panics): nothing else happens.
RunEnds(result) ==
  /\ pc' = "done"
  /\ runErr' = result
  /\ UNCHANGED <<stations, di, mi>>

\* Variant: the loop over a device's modules is left out.
ReturnedSkipsModules(err) ==
  /\ ret' = err
  /\ failed' = (failed \/ err # "nil")
  /\ IF err # "nil" /\ RunStopsOn(err) THEN RunEnds("err")
     ELSE IF di < Len(stations)
       THEN /\ di' = di + 1 /\ mi' = 0
            /\ pc' = "unit"
            /\ UNCHANGED <<runErr, stations>>
     ELSE RunEnds("nil")

\* exportHistory returned err to run's loop (main.go:397, 410).
Returned(err) ==
  /\ ret' = err
  /\ failed' = (failed \/ err # "nil")
  /\ IF err # "nil" /\ RunStopsOn(err) THEN RunEnds("err")
     ELSE IF mi < Len(stations[di].Modules)
       THEN /\ mi' = mi + 1
            /\ pc' = "unit"
            /\ UNCHANGED <<runErr, stations, di>>
     ELSE IF di < Len(stations)
       THEN /\ di' = di + 1 /\ mi' = 0
            /\ pc' = "unit"
            /\ UNCHANGED <<runErr, stations>>
     ELSE RunEnds("nil")

\* main.go:377-381: GetStations (client.go:54-60) and the entry of the loop.
GetStationsFrom(responses) ==
  /\ pc = "stations"
  /\ \E resp \in responses :
       LET r == doRequest(resp, <<>>)
       IN /\ lastResp' = Seen(resp)
          /\ IF r.err # "nil"
             THEN /\ pc' = "done" /\ runErr' = "err"
                  /\ UNCHANGED <<stations, di, mi>>
             ELSE /\ stations' = r.body
                  /\ IF r.body = <<>>
                     THEN /\ pc' = "done" /\ runErr' = "nil"
                          /\ UNCHANGED <<di, mi>>
                     ELSE /\ pc' = "unit" /\ runErr' = runErr
                          /\ di' = 1 /\ mi' = 0
  /\ UNCHANGED <<resume, config, since, dateBegin, points, nextTime, page, entry,
                 reqs, yields, consumed, ret, failed, tvars, svars, nvars>>

GetStations == GetStationsFrom(StationsResponses)

GetStationsStore ==
  GetStationsFrom({Response("ok", 200, "ok", "absent", TRUE, StoreStations)})

\* main.go:416-466: exportHistory from its entry to the call of GetMeasure
\* (client.go:74-85), or to its early return.
ExportHistory ==
  /\ pc = "unit"
  /\ \E sink \in (IF incremental THEN Sinks(CurUnit(stations, di, mi).dataTypes)
                    ELSE {NoSink}) :
     \E n \in (IF scrapeSince # 0 THEN Nows ELSE {0}) :
       LET unit == CurUnit(stations, di, mi)
           asked == incremental /\ unit.dataTypes # <<>>
           q == IF asked THEN sink[QueriedType(unit.dataTypes)] ELSE NoQuery
           e == ExportHistoryStart(resume, incremental, scrapeSince, unit, q, n)
       IN /\ entry' = [valid |-> TRUE, device |-> unit.device, module |-> unit.module,
                       dataTypes |-> unit.dataTypes, resume |-> resume,
                       queried |-> asked,
                       metrics |-> IF asked THEN <<QueriedType(unit.dataTypes)>>
                                   ELSE <<>>,
                       query |-> q, sink |-> sink, now |-> n]
          /\ reqs' = 0 /\ yields' = 0
          /\ resume' = e.resume
          /\ points' = <<>> /\ nextTime' = 0 /\ page' = <<>>
          /\ lastResp' = NoResponse
          /\ consumed' = "none"
          /\ CASE e.kind = "measure" ->
                    /\ since' = e.since
                    /\ dateBegin' = InitialDateBegin(e.since)
                    /\ pc' = "request"
                    /\ ret' = "none"
                    /\ UNCHANGED <<runErr, stations, di, mi, failed>>
               [] e.kind = "panic" ->
                    /\ RunEnds("panic")
                    /\ since' = ZeroTime /\ dateBegin' = <<>>
                    /\ ret' = "none"
                    /\ UNCHANGED failed
               [] OTHER ->
                    /\ Returned(e.kind)
                    /\ since' = ZeroTime /\ dateBegin' = <<>>
  /\ UNCHANGED <<config, tvars, svars, nvars>>

\* client.go:87-104: one request of GetMeasure's loop, up to the call of yield.
\* since is not read after client.go:85; the history of the start decision is
\* dropped with it when the first request is sent.
RequestFrom(responses) ==
  /\ pc = "request"
  /\ \E resp \in responses :
       LET r == doRequest(resp, <<>>)
       IN /\ (resp.body # <<>> => yields < MaxPages)
          /\ reqs' = reqs + 1
          /\ lastResp' = Seen(resp)
          /\ IF r.err # "nil"
             THEN /\ Returned("err")
                  /\ UNCHANGED <<points, nextTime, page>>
             ELSE IF NoData(r.body)
             THEN /\ Returned("nil")
                  /\ UNCHANGED <<points, nextTime, page>>
             ELSE LET f == Flatten(r.body, 0)
                  IN /\ points' = f.points
                     /\ nextTime' = f.t
                     /\ page' = r.body
                     /\ pc' = "yield"
                     /\ UNCHANGED <<runErr, stations, di, mi, ret, failed>>
  /\ since' = ZeroTime
  /\ entry' = NoEntry
  /\ consumed' = "none"
  /\ UNCHANGED <<resume, config, dateBegin, yields, tvars, svars, nvars>>

Request(bodies) == RequestFrom(MeasureResponses(bodies))

GetMeasureRequest == Request(MeasureBodies)

GetMeasureRequestRun == Request(RunBodies)

GetMeasureRequestValues == Request(ValueBodies)

GetMeasureRequestStore == RequestFrom({Upstream(store, dateBegin)})

\* client.go:105-108: yield (main.go:466-496) and the update of date_begin.
\* points and t are locals of one iteration of the loop.
Yield ==
  /\ pc = "yield"
  /\ \E k \in 0..Len(CurUnit(stations, di, mi).dataTypes) :
       LET c == Consumer(points, CurUnit(stations, di, mi).dataTypes, k)
       IN /\ yields' = yields + 1
          /\ consumed' = c
          /\ IF c = "panic"
             THEN /\ RunEnds("panic")
                  /\ UNCHANGED <<dateBegin, points, nextTime, page, ret, failed>>
             ELSE IF YieldFailed(c)
             THEN /\ Returned(c)
                  /\ UNCHANGED <<dateBegin, points, nextTime, page>>
             ELSE /\ dateBegin' = NextDateBegin(nextTime)
                  /\ points' = <<>> /\ nextTime' = 0 /\ page' = <<>>
                  /\ pc' = "request"
                  /\ UNCHANGED <<runErr, stations, di, mi, ret, failed>>
  /\ UNCHANGED <<resume, config, since, entry, reqs, lastResp, tvars, nvars>>

GetMeasureYield == Yield /\ UNCHANGED svars

\* The same step, with what the consumer accepted kept as history.
GetMeasureYieldStore ==
  /\ Yield
  /\ IF consumed' = "nil"
     THEN /\ got' = got \o [p \in 1..Len(points) |-> points[p].Time]
          /\ cursor' = <<nextTime>>
     ELSE UNCHANGED <<got, cursor>>
  /\ UNCHANGED <<store, before, resumed>>

\* The whole run, every flag setting, a short upstream repertoire.
Next == GetStations \/ ExportHistory \/ GetMeasureRequestRun \/ GetMeasureYield

Spec == Init /\ [][Next]_vars

\* Pagination: no resume token, no sink query, the full upstream repertoire.
InitMeasure == Init /\ resume = <<>> /\ ~incremental

NextMeasure == GetStations \/ ExportHistory \/ GetMeasureRequest \/ GetMeasureYield

SpecMeasure == InitMeasure /\ [][NextMeasure]_vars

\* Flattening and the consumer: full history, value vectors of several
\* contents and lengths.
InitValues == Init /\ resume = <<>> /\ ~incremental /\ scrapeSince = 0

NextValues == GetStations \/ ExportHistory \/ GetMeasureRequestValues \/ GetMeasureYield

SpecValues == InitValues /\ [][NextValues]_vars

\* ---------------------------------------------------- throttledTransport
pvars ==
  <<resume, incremental, scrapeSince, pc, runErr, stations, di, mi, since,
    dateBegin, points, nextTime, page, entry, reqs, yields, lastResp, consumed,
    ret, failed>>

\* Wait has returned waitErr to RoundTrip (client.go:170-173).  When
\* RoundTrip fails, client.Do fails, doRequest returns the error
\* (client.go:119-122) and GetMeasure returns it (client.go:89-91).
AfterWait(c, waitErr) ==
  IF RoundTrip(waitErr) = "send"
  THEN [c EXCEPT !.state = "granted", !.waitErr = waitErr]
  ELSE [c EXCEPT !.state = "failed", !.waitErr = waitErr,
                 !.result = PageOutcome(doRequest(RoundTripFailed, <<>>))]

\* client.go:170: RoundTrip calls Limiter.Wait with the request's context.
RoundTripWait(c) ==
  /\ callers[c].state = "idle"
  /\ LET w == WaitNow(tokens, callers[c].cancelled)
         called == [callers[c] EXCEPT !.waits = @ + 1]
     IN IF w = "block"
        THEN /\ callers' = [callers EXCEPT ![c] =
                              [called EXCEPT !.state = "blocked", !.blocked = TRUE]]
             /\ UNCHANGED tokens
        ELSE /\ callers' = [callers EXCEPT ![c] = AfterWait(called, w)]
             /\ tokens' = IF w = "nil" THEN tokens - 1 ELSE tokens
  /\ UNCHANGED <<refills, pvars, svars, nvars>>

\* A waiting caller gets a token: Wait returns nil.
WaitGranted(c) ==
  /\ callers[c].state = "blocked"
  /\ tokens > 0
  /\ tokens' = tokens - 1
  /\ callers' = [callers EXCEPT ![c] = AfterWait(callers[c], "nil")]
  /\ UNCHANGED <<refills, pvars, svars, nvars>>

\* The context of a waiting caller is done: Wait returns its error.
WaitCancelled(c) ==
  /\ callers[c].state = "blocked"
  /\ callers[c].cancelled
  /\ callers' = [callers EXCEPT ![c] = AfterWait(callers[c], "ctx")]
  /\ UNCHANGED <<tokens, refills, pvars, svars, nvars>>

\* The caller cancels the request's context, or its deadline passes.
CtxDone(c) ==
  /\ callers[c].state \in {"idle", "blocked"}
  /\ ~callers[c].cancelled
  /\ callers' = [callers EXCEPT ![c].cancelled = TRUE]
  /\ UNCHANGED <<tokens, refills, pvars, svars, nvars>>

\* One interval of the limiter's rate passes: a token is added.
LimiterRefill ==
  /\ refills < MaxRefills
  /\ tokens < Burst
  /\ tokens' = tokens + 1
  /\ refills' = refills + 1
  /\ UNCHANGED <<callers, pvars, svars, nvars>>

\* client.go:173: the underlying RoundTrip, and what doRequest and
\* GetMeasure make of the response.
UnderlyingRoundTrip(c) ==
  /\ callers[c].state = "granted"
  /\ \E resp \in TransportResponses :
       callers' = [callers EXCEPT ![c] =
                     [@ EXCEPT !.state = "done", !.sends = @ + 1,
                               !.result = PageOutcome(doRequest(resp, <<>>))]]
  /\ UNCHANGED <<tokens, refills, pvars, svars, nvars>>

\* ------------------------------------------------- the upstream as a store
\* The run is aborted (the consumer failed, or the process was stopped
\* during the pagination) and a new run is started with the resume token
\* of the last log line (main.go:492-494) and the same other flags.
Restart ==
  /\ ~resumed
  /\ cursor # <<>>
  /\ pc \in {"request", "yield"} \/ consumed = "err"
  /\ resume' = ResumeToken(CurUnit(stations, di, mi).device,
                           CurUnit(stations, di, mi).module, cursor[1])
  /\ pc' = "stations"
  /\ runErr' = "running"
  /\ stations' = <<>>
  /\ di' = 0 /\ mi' = 0
  /\ since' = ZeroTime
  /\ dateBegin' = <<>>
  /\ points' = <<>>
  /\ nextTime' = 0
  /\ page' = <<>>
  /\ entry' = NoEntry
  /\ reqs' = 0 /\ yields' = 0
  /\ lastResp' = NoResponse
  /\ consumed' = "none"
  /\ ret' = "none"
  /\ failed' = FALSE
  /\ before' = {got[i] : i \in 1..Len(got)}
  /\ got' = <<>>
  /\ resumed' = TRUE
  /\ UNCHANGED <<config, tvars, store, cursor, nvars>>

InitStore ==
  /\ InitRun /\ resume = <<>> /\ ~incremental /\ scrapeSince = 0
  /\ store \in SUBSET StoreTimes
  /\ FirstRun

NextStore ==
  GetStationsStore \/ ExportHistory \/ GetMeasureRequestStore \/ GetMeasureYieldStore
    \/ Restart

\* Nothing but the steps of the run itself delays the run.
SpecStore ==
  /\ InitStore /\ [][NextStore]_vars
  /\ WF_vars(GetStationsStore) /\ WF_vars(ExportHistory)
  /\ WF_vars(GetMeasureRequestStore) /\ WF_vars(GetMeasureYieldStore)

\* -------------------------------------------------- NotifyingTokenSource
\* client.go:48-52: one call of Token, with the callback of main.go:362-369
\* as Notify.
NotifyingTokenSourceToken ==
  /\ tokCalls < MaxTokenCalls
  /\ \E src \in SourceResults, save \in SaveResults :
       LET n == newToken(src.tok, src.err, save)
       IN /\ cfgToken' = IF n.set THEN src.tok ELSE cfgToken
          /\ diskToken' = IF n.saved /\ save = "nil" THEN cfgToken' ELSE diskToken
          /\ lastToken' = [src |-> src,
                           notify |-> <<[tok |-> src.tok, err |-> src.err]>>,
                           save |-> IF n.saved THEN save ELSE "none",
                           ret |-> Token(src, n.ret)]
  /\ tokCalls' = tokCalls + 1
  /\ UNCHANGED <<pvars, tvars, svars>>

InitToken == Init /\ resume = <<>> /\ ~incremental /\ scrapeSince = 0

NextToken == NotifyingTokenSourceToken

SpecToken == InitToken /\ [][NextToken]_vars

InitTransport == Init /\ resume = <<>> /\ ~incremental /\ scrapeSince = 0

NextTransport ==
  \E c \in Callers :
    \/ RoundTripWait(c)
    \/ WaitGranted(c)
    \/ WaitCancelled(c)
    \/ CtxDone(c)
    \/ LimiterRefill
    \/ UnderlyingRoundTrip(c)

SpecTransport == InitTransport /\ [][NextTransport]_vars

\* ================================================================ claims

\* The -resume values of ResumeFlags that have a device and a module field,
\* with the fields written out; epoch is <<>> when the third field is
\* missing or is not an integer.
ResumeTable ==
  { [flag |-> <<"a", "/", "/", "5", "6", "1">>,
     device |-> DevA, module |-> NoModule, epoch |-> <<561>>],
    [flag |-> <<"a", "/", "m", "/", "1", "3", "0", "1">>,
     device |-> DevA, module |-> ModM, epoch |-> <<1301>>],
    [flag |-> <<"b", "/", "/", "x">>,
     device |-> DevB, module |-> NoModule, epoch |-> <<>>],
    [flag |-> <<"a", "/", "m">>,
     device |-> DevA, module |-> ModM, epoch |-> <<>>],
    [flag |-> <<"z", "/", "/", "5">>,
     device |-> <<"z">>, module |-> NoModule, epoch |-> <<5>>] }

\* The times of the samples the sink reported for the unit exportHistory
\* was entered for.
UnitSampleTimes ==
  LET id == IF entry.module # NoModule THEN entry.module ELSE entry.device
  IN {entry.query.vec[i].Value :
        i \in {j \in 1..Len(entry.query.vec) : entry.query.vec[j].dev_id = id}}

\* exportHistory was entered without a resume token and the sink query, if
\* incremental mode asked for one, found no sample of the unit.
NoTokenNoSample ==
  /\ entry.valid
  /\ entry.resume = <<>>
  /\ \/ ~incremental
     \/ entry.queried /\ ~entry.query.err /\ UnitSampleTimes = {}

\* The last response was HTTP 200 with a well-formed envelope whose error
\* field is populated.
ErrorEnvelopeSeen ==
  /\ lastResp.transport = "ok"
  /\ lastResp.status = 200
  /\ lastResp.envelope = "ok"
  /\ lastResp.error # "absent"

\* The last response was a successful page with zero groups.
EmptyPageSeen ==
  /\ reqs >= 1
  /\ lastResp.transport = "ok"
  /\ lastResp.status = 200
  /\ lastResp.envelope = "ok"
  /\ lastResp.error = "absent"
  /\ lastResp.bodyOK
  /\ lastResp.groups = 0

\* C1: after a page with at least one point has been consumed, the
\* date_begin of the next request is the time of the last point plus one
\* second.
CursorIsLastPointPlusOne ==
  [][pc = "yield" /\ pc' = "request" /\ points # <<>>
       => dateBegin' = <<Last(points).Time + 1>>]_vars

\* C2: an HTTP 200 response whose envelope has a populated error field makes
\* GetMeasure return a non-nil error, and makes GetStations (hence run)
\* return a non-nil error.
ErrorEnvelopeIsFailure ==
  ErrorEnvelopeSeen => IF reqs >= 1 THEN ret = "err" ELSE runErr = "err"

\* C3: once exportHistory has returned an error for a unit, run has returned
\* that error and nothing further is requested.
RunAbortsOnFirstError == failed => pc = "done" /\ runErr = "err"

\* C4: a resume token whose device and module fields equal the unit makes
\* GetMeasure start at the token's epoch and clears the token.
MatchingTokenStartsAtEpoch ==
  \A w \in ResumeTable :
    (/\ entry.valid
     /\ entry.resume = w.flag
     /\ w.epoch # <<>>
     /\ entry.device = w.device /\ entry.module = w.module)
    => /\ pc = "request"
       /\ since = Unix(w.epoch[1])
       /\ dateBegin = w.epoch
       /\ resume = <<>>

\* C5: a resume token whose device or module field differs from the unit
\* makes exportHistory end without calling GetMeasure (no request, no call
\* of the consumer) and leaves the token as it was.
NonMatchingTokenSkips ==
  \A w \in ResumeTable :
    (/\ entry.valid
     /\ entry.resume = w.flag
     /\ (entry.device # w.device \/ entry.module # w.module))
    => /\ pc \in {"unit", "done"}
       /\ pc = "unit" => CurUnit(stations, di, mi).device # entry.device
                         \/ CurUnit(stations, di, mi).module # entry.module
       /\ reqs = 0 /\ yields = 0 /\ consumed = "none"
       /\ resume = entry.resume

NonMatchingTokenSkipped ==
  /\ entry.valid
  /\ entry.resume = <<"a", "/", "m", "/", "1", "3", "0", "1">>
  /\ entry.device = DevA /\ entry.module = NoModule
  /\ pc = "unit" /\ ret = "nil" /\ mi = 1
  /\ resume = entry.resume

\* C6: without a resume token and in incremental mode, a last sample of the
\* unit at time t makes GetMeasure start at t + 1, also when a lookback is
\* configured.
IncrementalStartsAfterLastSample ==
  \A t \in SampleValues :
    (/\ entry.valid
     /\ entry.resume = <<>>
     /\ incremental /\ entry.queried /\ ~entry.query.err
     /\ UnitSampleTimes = {t})
    => /\ pc = "request"
       /\ since = Unix(t + 1)
       /\ dateBegin = <<t + 1>>

IncrementalStartedOverLookback ==
  /\ entry.valid /\ entry.resume = <<>>
  /\ incremental /\ ~entry.query.err
  /\ UnitSampleTimes = {1300}
  /\ scrapeSince # 0
  /\ pc = "request" /\ dateBegin = <<1301>>

\* C7: without a resume token, when no sample of the unit was found (or
\* incremental mode is off) and the lookback L is not zero, GetMeasure starts
\* at now - L.
LookbackStart ==
  (NoTokenNoSample /\ scrapeSince # 0)
  => /\ pc = "request"
     /\ since = Unix(entry.now - scrapeSince)
     /\ dateBegin = <<entry.now - scrapeSince>>

LookbackStarted ==
  /\ NoTokenNoSample /\ scrapeSince = 600
  /\ incremental /\ Len(entry.query.vec) >= 1
  /\ entry.now = 2001
  /\ pc = "request" /\ dateBegin = <<1401>>

\* C8: with no token, no sample and no lookback the start is the zero time
\* and the first request has no date_begin; the first request has a
\* date_begin exactly when the start is not the zero time, and every later
\* request has one.
DateBeginOmittedIffZeroStart ==
  /\ (NoTokenNoSample /\ scrapeSince = 0)
     => pc = "request" /\ IsZero(since) /\ dateBegin = <<>>
  /\ (pc = "request" /\ reqs = 0)
     => /\ dateBegin # <<>> <=> ~IsZero(since)
        /\ dateBegin # <<>> => dateBegin = <<since.unix>>
  /\ (pc = "request" /\ reqs >= 1) => dateBegin # <<>>

FullHistoryStarted ==
  /\ NoTokenNoSample /\ scrapeSince = 0
  /\ incremental /\ Len(entry.query.vec) >= 1
  /\ pc = "request" /\ reqs = 0 /\ dateBegin = <<>>

\* C9: a page with zero groups makes GetMeasure return nil: the consumer is
\* not called for it and no further request is sent for the unit.
EmptyPageEndsPagination ==
  EmptyPageSeen
  => /\ pc \in {"unit", "done"}
     /\ ret = "nil"
     /\ yields = reqs - 1
     /\ consumed = "none"

EmptyPageAfterData ==
  EmptyPageSeen /\ reqs = 2 /\ yields = 1 /\ ret = "nil"

\* C10: when the consumer returns an error, GetMeasure returns that error,
\* sends no further request and leaves date_begin as it was.
ConsumerFailureAborts ==
  [][pc = "yield" /\ consumed' = "err"
       => /\ pc' \in {"unit", "done"}
          /\ ret' = consumed'
          /\ reqs' = reqs
          /\ dateBegin' = dateBegin]_vars

ConsumerFailedOnSecondPage ==
  consumed = "err" /\ ret = "err" /\ yields = 2 /\ reqs = 2 /\ dateBegin # <<>>

\* C11: the cursor handed to the consumer together with a page (the nextTime
\* of the logged resume token) is exactly the date_begin of the request that
\* follows the page.
CursorHandedIsNextDateBegin ==
  [][pc = "yield" /\ pc' = "request" => dateBegin' = <<nextTime>>]_vars

\* The number of inner vectors in the first n groups of a body.
RECURSIVE VectorsIn(_, _)
VectorsIn(body, n) ==
  IF n = 0 THEN 0 ELSE VectorsIn(body, n - 1) + Len(body[n].Value)

\* C12: a page is flattened into one point per inner vector, group after
\* group in the order received; the j-th vector (from 0) of a group with
\* beg_time b and step_time s becomes the point at b + j * s, its values
\* unchanged.
FlattenedGroupByGroup ==
  pc = "yield"
  => /\ Len(points) = VectorsIn(page, Len(page))
     /\ \A g \in 1..Len(page) :
          \A j \in 1..Len(page[g].Value) :
            points[VectorsIn(page, g - 1) + j]
              = [Time |-> page[g].Time + (j - 1) * page[g].Step,
                 Values |-> page[g].Value[j]]

FlattenedTwoGroups ==
  /\ pc = "yield"
  /\ page = <<[Time |-> 1000, Step |-> 60, Value |-> << <<10>>, <<20, 50>> >>],
              [Time |-> 500, Step |-> 60, Value |-> << <<11>> >>]>>
  /\ Len(points) = 3
  /\ points[2].Time = 1060 /\ points[3].Time = 500

\* The page being consumed has only groups whose beg_time is at or after
\* the date_begin it was requested with and whose step_time is not negative.
PageAtOrAfterDateBegin ==
  /\ dateBegin # <<>>
  /\ \A g \in 1..Len(page) :
       page[g].Time >= dateBegin[1] /\ page[g].Step >= 0

\* C13: within one unit the date_begin values of successive requests never
\* decrease, for every page whose groups have a beg_time at or after the
\* requested date_begin and a step_time that is not negative, pages whose
\* last group has an empty value list included.
DateBeginNeverDecreases ==
  [][pc = "yield" /\ pc' = "request" /\ PageAtOrAfterDateBegin
       => dateBegin'[1] >= dateBegin[1]]_vars

LastGroupEmptyAfterDateBegin ==
  /\ pc = "yield" /\ reqs = 2
  /\ PageAtOrAfterDateBegin
  /\ Len(page) = 2 /\ page[1].Value # <<>> /\ page[2].Value = <<>>
  /\ nextTime + 1 >= dateBegin[1]

\* The callers whose request reached the underlying transport, and those
\* whose Wait returned nil.
Sent == {c \in Callers : callers[c].sends > 0}

Granted == {c \in Callers : callers[c].waitErr = "nil"}

\* C14: a request reaches the underlying transport only after its one Wait
\* on the limiter returned nil; when the caller's context is done while it
\* waits, RoundTrip returns an error, the underlying transport is not
\* invoked for the request and GetMeasure returns an error without calling
\* the consumer.
SendsOnlyAfterWait ==
  \A c \in Callers :
    /\ callers[c].waits <= 1
    /\ callers[c].state \in {"granted", "done"}
         => callers[c].waits = 1 /\ callers[c].waitErr = "nil"
    /\ callers[c].sends > 0
         => callers[c].sends = 1 /\ callers[c].waits = 1 /\ callers[c].waitErr = "nil"
    /\ callers[c].waitErr = "ctx"
         => /\ callers[c].state = "failed"
            /\ callers[c].sends = 0
            /\ callers[c].result = "err"

CancelledWhileWaiting ==
  \E c, d \in Callers :
    /\ callers[c].blocked /\ callers[c].waitErr = "ctx"
    /\ callers[c].state = "failed" /\ callers[c].result = "err"
    /\ callers[d].state = "done" /\ callers[d].result = "yield"

\* C15: whatever the interleaving of the callers, the requests passed to the
\* underlying transport never outnumber the burst plus the tokens refilled
\* since the start, and the limiter's tokens stay within 0..burst.
NoTokenSpentTwice ==
  /\ Cardinality(Sent) <= Burst + refills
  /\ tokens \in 0..Burst

AllSentAfterRefill ==
  /\ Cardinality(Sent) = Burst + 1
  /\ refills = 1
  /\ tokens = 0

\* C16: from a full bucket of burst B, the first B requests are sent
\* without waiting and the (B+1)-th is not sent before a refill interval
\* has passed.
BurstThenRefillInterval ==
  /\ Cardinality(Sent) > Burst => refills >= 1
  /\ (refills = 0 /\ Cardinality(Granted) < Burst)
       => \A c \in Callers : ~callers[c].blocked
  /\ refills = 0 => \A c \in Sent : ~callers[c].blocked

BurstSentLastWaits ==
  /\ refills = 0
  /\ Cardinality(Sent) = Burst
  /\ \A c \in Sent : ~callers[c].blocked
  /\ \E c \in Callers : callers[c].state = "blocked" /\ ~callers[c].cancelled

\* The unit and the first page of the end-to-end scenario.
ScenarioUnit ==
  [device |-> DevA, module |-> NoModule, dataTypes |-> <<"Temperature">>]

ScenarioPage ==
  <<[Time |-> 500, Step |-> 60, Value |-> << <<10>>, <<11>> >>]>>

\* C17: for a unit with one data type, no resume token, incremental mode
\* off and no lookback, the first request has no date_begin; the first page
\* {500, 60, [[10],[11]]} gives the consumer the points {500,[10]} and
\* {560,[11]} with the next cursor 561; the second page is empty and ends
\* the unit after two requests and one call of the consumer.
EndToEndScenario ==
  /\ [][(/\ pc = "yield" /\ reqs = 1 /\ page = ScenarioPage
          /\ CurUnit(stations, di, mi) = ScenarioUnit
          /\ consumed' = "nil")
         => /\ dateBegin = <<>>
            /\ points = <<[Time |-> 500, Values |-> <<10>>],
                          [Time |-> 560, Values |-> <<11>>]>>
            /\ nextTime = 561
            /\ dateBegin' = <<561>>]_vars
  /\ [][(pc = "request" /\ reqs = 1 /\ yields = 1 /\ EmptyPageSeen')
         => reqs' = 2 /\ yields' = 1 /\ ret' = "nil"]_vars

\* C18: every point handed to the consumer has as many values as the unit
\* has data types, so the consumer's point.Values[i] is always in range.
ValuesMatchDataTypes ==
  /\ pc = "yield"
       => \A p \in 1..Len(points) :
            Len(points[p].Values) = Len(CurUnit(stations, di, mi).dataTypes)
  /\ consumed # "panic"

\* C19: while a resume token is set the sink is not queried and the start
\* decision comes from the token alone: a matching unit starts at the
\* token's epoch and clears the token, a non-matching unit is skipped
\* without an error, whatever the sink query would have returned.
TokenDecidesAlone ==
  (entry.valid /\ entry.resume # <<>>)
  => /\ ~entry.queried
     /\ \A w \in ResumeTable :
          entry.resume = w.flag
          => IF entry.device = w.device /\ entry.module = w.module
             THEN w.epoch # <<>>
                  => pc = "request" /\ dateBegin = w.epoch /\ resume = <<>>
             ELSE /\ ret = "nil" /\ reqs = 0
                  /\ resume = entry.resume

\* The start the incremental and lookback rules allow for the unit
\* exportHistory was entered for.
RuleStarts ==
  {<<t + 1>> : t \in UnitSampleTimes}
    \cup (IF scrapeSince # 0 THEN {<<entry.now - scrapeSince>>} ELSE {<<>>})

\* C20: over a whole run the token is used at most once: units before the
\* first matching one are skipped, the first matching unit starts at the
\* token's epoch and clears the token, later units start by the incremental
\* and lookback rules, a cleared token is never set again, and as long as no
\* unit has matched no measurement request is sent.
TokenConsumedAtMostOnce ==
  /\ [](/\ resume # <<>> => pc \notin {"request", "yield"} /\ reqs = 0
        /\ \A w \in ResumeTable :
             (entry.valid /\ entry.resume = w.flag /\ w.epoch # <<>>)
             => IF entry.device = w.device /\ entry.module = w.module
                THEN pc = "request" /\ dateBegin = w.epoch /\ resume = <<>>
                ELSE pc \in {"unit", "done"} /\ resume = entry.resume
        /\ (entry.valid /\ entry.resume = <<>> /\ pc = "request")
             => dateBegin \in RuleStarts)
  /\ [][resume = <<>> => resume' = <<>>]_vars

\* The last getmeasure request failed: no response, a status other than
\* 200, or a payload that does not decode.
RequestFailed ==
  /\ reqs >= 1
  /\ \/ lastResp.transport = "err"
     \/ lastResp.transport = "ok" /\ lastResp.status # 200
     \/ /\ lastResp.transport = "ok" /\ lastResp.status = 200
        /\ \/ lastResp.envelope # "ok"
           \/ lastResp.envelope = "ok" /\ lastResp.error = "invalid"
           \/ lastResp.envelope = "ok" /\ lastResp.error = "absent" /\ ~lastResp.bodyOK

\* C21: a failed request (transport error, status other than 200 whatever
\* the body, undecodable payload) makes GetMeasure return an error: the
\* consumer is not called for the page and no request follows for the unit.
FailedRequestEndsUnit ==
  RequestFailed
  => /\ pc \in {"unit", "done"}
     /\ ret = "err"
     /\ yields = reqs - 1
     /\ consumed = "none"

Non200WithPageAfterData ==
  /\ RequestFailed
  /\ lastResp.status = 500 /\ lastResp.groups = 1
  /\ reqs = 2 /\ yields = 1 /\ ret = "err"

\* C22: requests are strictly sequential.  The units are taken one at a
\* time in the order of the stations, a device before its modules, and a
\* unit is left only when its pagination has ended; within a unit a request
\* follows only a page the consumer returned nil for, and the consumer is
\* called once per non-empty page, in the order of the requests.
RequestsStrictlySequential ==
  [][/\ (pc = "stations" /\ pc' = "unit") => di' = 1 /\ mi' = 0
     /\ (pc # "stations" /\ <<di', mi'>> # <<di, mi>>)
          => /\ pc' = "unit"
             /\ \/ di' = di /\ mi' = mi + 1 /\ mi < Len(stations[di].Modules)
                \/ di' = di + 1 /\ mi' = 0 /\ mi = Len(stations[di].Modules)
     /\ reqs' = reqs + 1
          => /\ pc = "request"
             /\ yields = reqs
             /\ reqs >= 1 => consumed = "nil"
     /\ yields' = yields + 1
          => pc = "yield" /\ yields' = reqs /\ page # <<>>
     /\ (pc = "request" /\ page' # <<>>) => pc' = "yield"]_vars

ModuleAfterDevicePaginated ==
  /\ di = 1 /\ mi = 1
  /\ pc = "request" /\ reqs = 1 /\ yields = 1 /\ consumed = "nil"

\* The greatest element of a non-empty set of numbers.
Greatest(S) == CHOOSE x \in S : \A y \in S : y <= x

\* C24: in incremental mode only the samples whose dev_id is the unit's ID
\* count, and of several such samples the one with the greatest timestamp t
\* gives the start t + 1.
IncrementalStartsAfterGreatestSample ==
  (/\ entry.valid /\ entry.resume = <<>>
   /\ incremental /\ entry.queried /\ ~entry.query.err
   /\ UnitSampleTimes # {})
  => /\ pc = "request"
     /\ dateBegin = <<Greatest(UnitSampleTimes) + 1>>

\* C28: whatever the token and the unit, exportHistory ends as a skip, as a
\* start (token cleared) or with a returned error, never with a field access
\* out of range; a matching token whose epoch is not an integer gives an
\* error, no request, and stays set.
TokenHandlingTotal ==
  (entry.valid /\ entry.resume # <<>> /\ entry.dataTypes # <<>>)
  => /\ runErr # "panic"
     /\ \/ pc = "request" /\ resume = <<>>
        \/ pc \in {"unit", "done"} /\ ret = "nil" /\ resume = entry.resume
        \/ pc \in {"unit", "done"} /\ ret = "err" /\ resume = entry.resume
     /\ (/\ entry.resume = <<"b", "/", "/", "x">>
         /\ entry.device = DevB /\ entry.module = NoModule)
        => ret = "err" /\ reqs = 0 /\ resume = entry.resume

\* The times of the unit's samples in a query result.
SampleTimesIn(q) ==
  LET id == IF entry.module # NoModule THEN entry.module ELSE entry.device
  IN {q.vec[i].Value : i \in {j \in 1..Len(q.vec) : q.vec[j].dev_id = id}}

\* C25: in incremental mode the sink is queried once per unit, for
\* dataTypes[0]; the start follows from the samples of that metric, and what
\* the sink holds for the unit's other data types does not change it.
StartFromFirstDataTypeOnly ==
  (entry.valid /\ entry.queried)
  => LET first == entry.sink[entry.dataTypes[1]]
     IN /\ entry.metrics = <<entry.dataTypes[1]>>
        /\ entry.query = first
        /\ (entry.resume = <<>> /\ ~first.err)
             => /\ pc = "request"
                /\ IF SampleTimesIn(first) # {}
                   THEN dateBegin \in {<<t + 1>> : t \in SampleTimesIn(first)}
                   ELSE dateBegin = IF scrapeSince # 0
                                    THEN <<entry.now - scrapeSince>> ELSE <<>>

LaterSampleOfOtherType ==
  /\ entry.valid /\ entry.queried /\ entry.resume = <<>>
  /\ entry.module = ModM /\ entry.dataTypes = <<"Temperature", "Humidiity">>
  /\ entry.sink["Temperature"] = [err |-> FALSE, vec |-> <<[dev_id |-> ModM, Value |-> 560]>>]
  /\ entry.sink["Humidiity"] = [err |-> FALSE, vec |-> <<[dev_id |-> ModM, Value |-> 1300]>>]
  /\ pc = "request" /\ dateBegin = <<561>>

\* The pagination of the unit has ended with an empty page.
PaginationCompleted == EmptyPageSeen /\ ret = "nil"

\* C23: a run started with the resume token logged with the last page the
\* aborted run's consumer accepted hands the consumer no point the aborted
\* run's pages contained, and leaves out no upstream sample they did not
\* contain.
ResumeIsSafe ==
  resumed
  => /\ \A i \in 1..Len(got) : got[i] \notin before
     /\ PaginationCompleted
          => \A t \in store : t \in before \/ \E i \in 1..Len(got) : got[i] = t

\* C26: against an upstream that answers with the earliest samples at or
\* after date_begin, a page-size limit applied, a pagination that completes
\* has handed the consumer every upstream sample from the start on exactly
\* once, in time order.
CompleteWithoutDuplicates ==
  (~resumed /\ PaginationCompleted) => got = Sorted(store)

\* C27: with finitely many upstream samples, only groups at or after the
\* requested date_begin, and requests and consumer succeeding, date_begin
\* grows strictly from request to request and GetMeasure comes to an empty
\* page and returns.
PaginationTerminates ==
  /\ [][(pc = "yield" /\ pc' = "request" /\ dateBegin # <<>>)
         => dateBegin'[1] > dateBegin[1]]_vars
  /\ (pc = "request") ~> (PaginationCompleted \/ consumed = "err")

EmptyPageAfterTwoPages ==
  /\ PaginationCompleted
  /\ ~resumed /\ reqs = 3 /\ yields = 2
  /\ Len(got) = 3 /\ dateBegin = <<701>>

\* C29: a call of Token calls Notify once, with the wrapped source's token
\* and error, and returns the wrapped token with Notify's result: a refresh
\* error comes back to the caller, a refreshed token is in the saved config
\* when Token returns, and a failed save makes Token fail although the
\* refresh succeeded.
TokenNotifiesOnce ==
  tokCalls >= 1
  => /\ lastToken.notify = <<lastToken.src>>
     /\ lastToken.ret.tok = lastToken.src.tok
     /\ lastToken.src.err # "nil"
          => lastToken.ret.err = lastToken.src.err /\ lastToken.save = "none"
     /\ (lastToken.src.err = "nil" /\ lastToken.save = "nil")
          => lastToken.ret.err = "nil" /\ diskToken = lastToken.src.tok
     /\ (lastToken.src.err = "nil" /\ lastToken.save # "nil")
          => lastToken.ret.err = lastToken.save /\ lastToken.save = "save"

SaveFailedAfterRefresh ==
  /\ tokCalls = 2
  /\ lastToken.src = [tok |-> "t2", err |-> "nil"]
  /\ lastToken.save = "save" /\ lastToken.ret.err = "save"
  /\ cfgToken = "t2" /\ diskToken = "t1"

====
